---- MODULE Spec2Model ----
(***************************************************************************)
(* The request queue of the background-removal API (src/server.js).        *)
(*                                                                         *)
(* Node runs one callback at a time: every action below is one             *)
(* run-to-completion segment of the code, from the resumption of an await  *)
(* (or the arrival of a request, or the firing of a timer) to the next     *)
(* await.  The awaits are: writeFile (line 154), removeBackground and      *)
(* arrayBuffer (lines 78-86), unlink (lines 93, 108, 167).  The await of   *)
(* processBackgroundRemoval in processQueue (line 60) resumes in the       *)
(* microtasks of the segment that ends processBackgroundRemoval, so the    *)
(* finally block (lines 61-69) belongs to that segment.                    *)
(*                                                                         *)
(* Calls into the environment may fail: writeFile, removeBackground and    *)
(* unlink may reject, res.writeHead, res.end and res.status(500).json may  *)
(* throw.  The model follows the process while it runs: when an exception  *)
(* escapes processBackgroundRemoval, the promise of processQueue rejects   *)
(* with nobody awaiting it, and the runtime is taken to report that and    *)
(* carry on.                                                               *)
(***************************************************************************)
EXTENDS Integers, Sequences, FiniteSets, TLC

\* ---------------------------------------------------------------- bounds
MaxReq == 5          \* number of POST /remove-bg requests that arrive
MaxFaults == 2       \* number of failing calls (transform, I/O, send) in a run
LiveReq == 3         \* number of requests that arrive under LiveSpec

\* ------------------------------------------------------- program constants
maxQueueLength == 3  \* the literal of the capacity check
maxConcurrency == 1  \* isProcessing is one boolean: one slot

ALLOWED_MIME_TYPES ==
  { "image/jpeg", "image/jpg", "image/png", "image/webp", "image/gif",
    "image/bmp", "image/tiff", "image/heic", "image/heif" }

\* What a request carries: no file at all, or a file of some MIME type.
Inputs == { "nofile", "image/png", "text/plain" }

Req == 1..MaxReq

VARIABLES
  nextReq,        \* requests arrive in the order 1, 2, 3, ...
  kind,           \* kind[r]: the input of request r ("none" before it arrives)
  pc,             \* pc[r]: where the handler / the job of request r is suspended
  requestQueue,   \* the array requestQueue (jobs are named by their request)
  isProcessing,   \* the flag isProcessing
  timers,         \* number of pending setTimeout(processQueue, 100)
  resp,           \* resp[r]: the status lines sent on res of request r, in order
  unlinkCalls,    \* unlinkCalls[r]: number of unlink(inPath) calls made for r
  file,           \* file[r]: the temp artifact of r
  state,          \* state[r]: the job's state
  transformCalls, \* transformCalls[r]: number of removeBackground calls for r
  tResult,        \* tResult[r]: how the transform of r ended
  threw,          \* threw[r]: the response calls of r that threw
  pushed,         \* the jobs in the order they were pushed
  started,        \* the jobs in the order they began Processing
  faults          \* failing calls so far

vars == << nextReq, kind, pc, requestQueue, isProcessing, timers, resp,
           unlinkCalls, file, state, transformCalls, tResult, threw,
           pushed, started, faults >>

\* res.headersSent
headersSent(r) == resp[r] # << >>

Init ==
  /\ nextReq = 1
  /\ kind = [r \in Req |-> "none"]
  /\ pc = [r \in Req |-> "idle"]
  /\ requestQueue = << >>
  /\ isProcessing = FALSE
  /\ timers = 0
  /\ resp = [r \in Req |-> << >>]
  /\ unlinkCalls = [r \in Req |-> 0]
  /\ file = [r \in Req |-> "none"]
  /\ state = [r \in Req |-> "none"]
  /\ transformCalls = [r \in Req |-> 0]
  /\ tResult = [r \in Req |-> "none"]
  /\ threw = [r \in Req |-> { }]
  /\ pushed = << >>
  /\ started = << >>
  /\ faults = 0

\* A call that may fail does so only while the run's budget of failures lasts.
MayFail == faults < MaxFaults
Outcomes == IF MayFail THEN { TRUE, FALSE } ELSE { TRUE }
Charge(ok) == IF ok THEN faults ELSE faults + 1

\* ------------------------------------------------------------ processQueue
\* The guard of processQueue with the isProcessing test left out.
CanDispatchIgnoresBusy(q, busy) == Len(q) # 0

\* The guard of processQueue.
CanDispatch(q, busy) == ~ (Len(q) = 0 \/ busy)

\* processQueue taking the last element of the queue instead of the first.
processQueuePopsLast(q, busy, pc1, st1) ==
  IF CanDispatch(q, busy)
    THEN LET j == q[Len(q)] IN
         /\ isProcessing' = TRUE
         /\ requestQueue' = SubSeq(q, 1, Len(q) - 1)
         /\ started' = Append(started, j)
         /\ pc' = [pc1 EXCEPT ![j] = "transform"]
         /\ state' = [st1 EXCEPT ![j] = "Processing"]
         /\ transformCalls' = [transformCalls EXCEPT ![j] = @ + 1]
    ELSE /\ isProcessing' = busy
         /\ requestQueue' = q
         /\ pc' = pc1
         /\ state' = st1
         /\ UNCHANGED << started, transformCalls >>

\* processQueue reading the head of the queue without removing it.
processQueuePeeks(q, busy, pc1, st1) ==
  IF CanDispatch(q, busy)
    THEN LET j == Head(q) IN
         /\ isProcessing' = TRUE
         /\ requestQueue' = q
         /\ started' = Append(started, j)
         /\ pc' = [pc1 EXCEPT ![j] = "transform"]
         /\ state' = [st1 EXCEPT ![j] = "Processing"]
         /\ transformCalls' = [transformCalls EXCEPT ![j] = @ + 1]
    ELSE /\ isProcessing' = busy
         /\ requestQueue' = q
         /\ pc' = pc1
         /\ state' = st1
         /\ UNCHANGED << started, transformCalls >>

\* processQueue() called when requestQueue is q and isProcessing is busy, the
\* caller having brought the handlers and jobs to pc1 and st1: the synchronous
\* part, up to the await of removeBackground (lines 54-57 and 73-78).  It
\* sets isProcessing and shifts the head, which becomes Processing and has
\* the transform invoked on it.
processQueue(q, busy, pc1, st1) ==
  IF CanDispatch(q, busy)
    THEN LET j == Head(q) IN
         /\ isProcessing' = TRUE
         /\ requestQueue' = Tail(q)
         /\ started' = Append(started, j)
         /\ pc' = [pc1 EXCEPT ![j] = "transform"]
         /\ state' = [st1 EXCEPT ![j] = "Processing"]
         /\ transformCalls' = [transformCalls EXCEPT ![j] = @ + 1]
    ELSE /\ isProcessing' = busy
         /\ requestQueue' = q
         /\ pc' = pc1
         /\ state' = st1
         /\ UNCHANGED << started, transformCalls >>

\* The finally block without the setTimeout that re-triggers processQueue.
FinallyNoTimer(j, st) ==
  /\ isProcessing' = FALSE
  /\ timers' = timers
  /\ pc' = [pc EXCEPT ![j] = "done"]
  /\ state' = [state EXCEPT ![j] = st]
  /\ UNCHANGED << requestQueue, started, transformCalls >>

\* processQueue with a plain try/catch-less await: when the job fails, the
\* lines after the await are skipped and isProcessing stays set.
FinallySkippedOnFailure(j, st) ==
  /\ isProcessing' = (st = "Failed")
  /\ timers' = IF st = "Failed" THEN timers ELSE timers + 1
  /\ pc' = [pc EXCEPT ![j] = "done"]
  /\ state' = [state EXCEPT ![j] = st]
  /\ UNCHANGED << requestQueue, started, transformCalls >>

\* The finally block putting a failed job back into the queue for a retry.
FinallyRequeues(j, st) ==
  /\ isProcessing' = FALSE
  /\ timers' = timers + 1
  /\ IF st = "Failed" /\ transformCalls[j] < 2
       THEN /\ pc' = [pc EXCEPT ![j] = "queued"]
            /\ state' = [state EXCEPT ![j] = "Queued"]
            /\ requestQueue' = Append(requestQueue, j)
       ELSE /\ pc' = [pc EXCEPT ![j] = "done"]
            /\ state' = [state EXCEPT ![j] = st]
            /\ UNCHANGED requestQueue
  /\ UNCHANGED << started, transformCalls >>

\* The finally block of processQueue (lines 61-69): the slot is freed and a
\* pacing timer is armed.  The job j that was running ends in state st.
Finally(j, st) ==
  /\ isProcessing' = FALSE
  /\ timers' = timers + 1
  /\ pc' = [pc EXCEPT ![j] = "done"]
  /\ state' = [state EXCEPT ![j] = st]
  /\ UNCHANGED << requestQueue, started, transformCalls >>

\* ------------------------------------------------------ POST /remove-bg
\* The early answers with the capacity test written > instead of >=.
EarlyStatusOffByOne(k, len) ==
  IF k = "nofile" THEN 400
  ELSE IF k \notin ALLOWED_MIME_TYPES THEN 400
  ELSE IF len > maxQueueLength THEN 503
  ELSE 0

\* The early answers with the capacity test placed before the input tests.
EarlyStatusCapacityFirst(k, len) ==
  IF len >= maxQueueLength THEN 503
  ELSE IF k = "nofile" THEN 400
  ELSE IF k \notin ALLOWED_MIME_TYPES THEN 400
  ELSE 0

\* The status of a request answered before any await (lines 121-150), or 0
\* when the request goes on to write its temp file.
EarlyStatus(k, len) ==
  IF k = "nofile" THEN 400
  ELSE IF k \notin ALLOWED_MIME_TYPES THEN 400
  ELSE IF len >= maxQueueLength THEN 503
  ELSE 0

\* A request arrives and its handler runs up to the await of writeFile.
Arrive(k) ==
  /\ nextReq <= MaxReq
  /\ LET r == nextReq
         s == EarlyStatus(k, Len(requestQueue)) IN
     /\ nextReq' = r + 1
     /\ kind' = [kind EXCEPT ![r] = k]
     /\ IF s # 0
          THEN /\ resp' = [resp EXCEPT ![r] = Append(@, s)]
               /\ pc' = [pc EXCEPT ![r] = "done"]
               /\ UNCHANGED file
          ELSE /\ pc' = [pc EXCEPT ![r] = "writing"]
               /\ file' = [file EXCEPT ![r] = "writing"]
               /\ UNCHANGED resp
  /\ UNCHANGED << requestQueue, isProcessing, timers, unlinkCalls, state,
                  transformCalls, tResult, threw, pushed, started, faults >>

\* writeFile resolves and the job is pushed, but processQueue is not called.
WriteDoneNoDispatch(r) ==
  /\ pc[r] = "writing"
  /\ file' = [file EXCEPT ![r] = "present"]
  /\ pushed' = Append(pushed, r)
  /\ requestQueue' = Append(requestQueue, r)
  /\ pc' = [pc EXCEPT ![r] = "queued"]
  /\ state' = [state EXCEPT ![r] = "Queued"]
  /\ UNCHANGED << nextReq, kind, isProcessing, timers, resp, unlinkCalls,
                  transformCalls, tResult, threw, started, faults >>

\* The job pushed without waiting for writeFile: the artifact is still being
\* written when the job is queued or dispatched.
WriteDoneBeforeWritten(r) ==
  /\ pc[r] = "writing"
  /\ file' = file
  /\ pushed' = Append(pushed, r)
  /\ processQueue(Append(requestQueue, r), isProcessing,
                  [pc EXCEPT ![r] = "queued"],
                  [state EXCEPT ![r] = "Queued"])
  /\ UNCHANGED << nextReq, kind, timers, resp, unlinkCalls, tResult,
                  threw, faults >>

\* writeFile resolves: the job is pushed and processQueue is called
\* (lines 157-161).
WriteDone(r) ==
  /\ pc[r] = "writing"
  /\ file' = [file EXCEPT ![r] = "present"]
  /\ pushed' = Append(pushed, r)
  /\ processQueue(Append(requestQueue, r), isProcessing,
                  [pc EXCEPT ![r] = "queued"],
                  [state EXCEPT ![r] = "Queued"])
  /\ UNCHANGED << nextReq, kind, timers, resp, unlinkCalls, tResult,
                  threw, faults >>

\* writeFile rejects and the catch block goes on without calling unlink.
WriteFailNoRelease(r) ==
  /\ pc[r] = "writing"
  /\ MayFail
  /\ faults' = faults + 1
  /\ pc' = [pc EXCEPT ![r] = "uploadCleanup"]
  /\ file' = [file EXCEPT ![r] = "partial"]
  /\ UNCHANGED << nextReq, kind, requestQueue, isProcessing, timers, resp,
                  unlinkCalls, state, transformCalls, tResult, threw, pushed,
                  started >>

\* writeFile rejects: the catch block calls unlink(inPath) and awaits it
\* (lines 163-168).
WriteFail(r) ==
  /\ pc[r] = "writing"
  /\ MayFail
  /\ faults' = faults + 1
  /\ pc' = [pc EXCEPT ![r] = "uploadCleanup"]
  /\ file' = [file EXCEPT ![r] = "partial"]
  /\ unlinkCalls' = [unlinkCalls EXCEPT ![r] = @ + 1]
  /\ UNCHANGED << nextReq, kind, requestQueue, isProcessing, timers, resp,
                  state, transformCalls, tResult, threw, pushed, started >>

\* What unlink leaves of the artifact f: a failing unlink is swallowed
\* (lines 93, 108, 167) and leaves it; unlink of a missing file fails too.
AfterUnlink(f, ok) == IF ok /\ f \in { "present", "partial" } THEN "gone" ELSE f

\* An unlink of artifact f may succeed only when the file is there.
UnlinkOutcomes(f) ==
  IF f \in { "present", "partial" } THEN Outcomes ELSE { FALSE }

UnlinkCharge(f, ok) ==
  IF f \in { "present", "partial" } THEN Charge(ok) ELSE faults

\* The unlink of the handler's catch block has settled: 500 "Upload failed"
\* (lines 170-172).
UploadCleanupDone(r, ok) ==
  /\ pc[r] = "uploadCleanup"
  /\ ok \in UnlinkOutcomes(file[r])
  /\ faults' = UnlinkCharge(file[r], ok)
  /\ file' = [file EXCEPT ![r] = AfterUnlink(@, ok)]
  /\ resp' = [resp EXCEPT ![r] = IF headersSent(r) THEN @ ELSE Append(@, 500)]
  /\ pc' = [pc EXCEPT ![r] = "done"]
  /\ UNCHANGED << nextReq, kind, requestQueue, isProcessing, timers,
                  unlinkCalls, state, transformCalls, tResult, threw,
                  pushed, started >>

\* ------------------------------------------- processBackgroundRemoval
\* processBackgroundRemoval not awaited by processQueue: the slot is given
\* back when the transform settles, before the release.
TransformReturnFreesSlot(j, ok) ==
  /\ pc[j] = "transform"
  /\ ok \in Outcomes
  /\ faults' = Charge(ok)
  /\ tResult' = [tResult EXCEPT ![j] = IF ok THEN "ok" ELSE "fail"]
  /\ unlinkCalls' = [unlinkCalls EXCEPT ![j] = @ + 1]
  /\ pc' = [pc EXCEPT ![j] = IF ok THEN "unlinkOk" ELSE "unlinkErr"]
  /\ isProcessing' = FALSE
  /\ UNCHANGED << nextReq, kind, requestQueue, timers, resp,
                  file, state, transformCalls, threw, pushed, started >>

\* removeBackground (and arrayBuffer) settles for the running job j.  On
\* success the code runs to the await of unlink at line 93, on failure to the
\* await of unlink at line 108.
TransformReturn(j, ok) ==
  /\ pc[j] = "transform"
  /\ ok \in Outcomes
  /\ faults' = Charge(ok)
  /\ tResult' = [tResult EXCEPT ![j] = IF ok THEN "ok" ELSE "fail"]
  /\ unlinkCalls' = [unlinkCalls EXCEPT ![j] = @ + 1]
  /\ pc' = [pc EXCEPT ![j] = IF ok THEN "unlinkOk" ELSE "unlinkErr"]
  /\ UNCHANGED << nextReq, kind, requestQueue, isProcessing, timers, resp,
                  file, state, transformCalls, threw, pushed, started >>

\* How sending the 200 response can go: both calls return; res.writeHead
\* throws (nothing sent); res.end throws (the status line is out).
SendOutcomes == { "sent", "writeHeadThrows", "endThrows" }

\* The status lines on res after lines 96-101 ran with outcome snd.
AfterSend200(rs, snd) == IF snd = "writeHeadThrows" THEN rs ELSE Append(rs, 200)

\* The success path without the try/catch around unlink (lines 91-94): a
\* failing unlink skips the 200 and enters the catch block.
SendSuccessUnlinkRaises(j, ok, snd) ==
  /\ pc[j] = "unlinkOk"
  /\ ok \in UnlinkOutcomes(file[j])
  /\ snd \in SendOutcomes
  /\ ~ ok => snd = "sent"
  /\ faults' = UnlinkCharge(file[j], ok) + (IF snd = "sent" THEN 0 ELSE 1)
  /\ faults' <= MaxFaults
  /\ file' = [file EXCEPT ![j] = AfterUnlink(@, ok)]
  /\ resp' = [resp EXCEPT ![j] = IF ok THEN AfterSend200(@, snd) ELSE @]
  /\ IF ok /\ snd = "sent"
       THEN /\ Finally(j, "Completed")
            /\ UNCHANGED unlinkCalls
       ELSE /\ pc' = [pc EXCEPT ![j] = "unlinkErr"]
            /\ unlinkCalls' = [unlinkCalls EXCEPT ![j] = @ + 1]
            /\ UNCHANGED << requestQueue, isProcessing, timers, state,
                            started, transformCalls >>
  /\ threw' = [threw EXCEPT ![j] = IF snd = "writeHeadThrows" THEN @ \cup { "writeHead" }
                                    ELSE IF snd = "endThrows" THEN @ \cup { "end" }
                                    ELSE @]
  /\ UNCHANGED << nextReq, kind, tResult, pushed >>

\* The unlink of the success path (line 93) has settled; the 200 response is
\* sent (lines 96-101).  When sending throws, the catch block calls unlink
\* again and awaits it (lines 103-109); otherwise the job is Completed and
\* processQueue's finally block runs.
SendSuccess(j, ok, snd) ==
  /\ pc[j] = "unlinkOk"
  /\ ok \in UnlinkOutcomes(file[j])
  /\ snd \in SendOutcomes
  /\ faults' = UnlinkCharge(file[j], ok) + (IF snd = "sent" THEN 0 ELSE 1)
  /\ faults' <= MaxFaults
  /\ file' = [file EXCEPT ![j] = AfterUnlink(@, ok)]
  /\ resp' = [resp EXCEPT ![j] = AfterSend200(@, snd)]
  /\ IF snd = "sent"
       THEN /\ Finally(j, "Completed")
            /\ UNCHANGED unlinkCalls
       ELSE /\ pc' = [pc EXCEPT ![j] = "unlinkErr"]
            /\ unlinkCalls' = [unlinkCalls EXCEPT ![j] = @ + 1]
            /\ UNCHANGED << requestQueue, isProcessing, timers, state,
                            started, transformCalls >>
  /\ threw' = [threw EXCEPT ![j] = IF snd = "writeHeadThrows" THEN @ \cup { "writeHead" }
                                    ELSE IF snd = "endThrows" THEN @ \cup { "end" }
                                    ELSE @]
  /\ UNCHANGED << nextReq, kind, tResult, pushed >>

\* The 500 sent without the test of res.headersSent.
AfterSend500Unguarded(rs, thrown) == IF thrown THEN rs ELSE Append(rs, 500)

\* The status lines on res after lines 111-113 ran: the 500 is sent unless
\* headers were sent already; thrown tells that res.status(500).json threw.
AfterSend500(rs, thrown) == IF rs # << >> \/ thrown THEN rs ELSE Append(rs, 500)

\* The unlink of the catch block (line 108) has settled; the 500 response is
\* sent unless headers were sent (lines 111-113).  Whether the send returns
\* or throws out of processBackgroundRemoval, the job is Failed and
\* processQueue's finally block runs.
SendFailure(j, ok, thrown) ==
  /\ pc[j] = "unlinkErr"
  /\ ok \in UnlinkOutcomes(file[j])
  /\ thrown \in BOOLEAN
  /\ thrown => ~ headersSent(j)
  /\ faults' = UnlinkCharge(file[j], ok) + (IF thrown THEN 1 ELSE 0)
  /\ faults' <= MaxFaults
  /\ file' = [file EXCEPT ![j] = AfterUnlink(@, ok)]
  /\ resp' = [resp EXCEPT ![j] = AfterSend500(@, thrown)]
  /\ threw' = [threw EXCEPT ![j] = IF thrown THEN @ \cup { "json" } ELSE @]
  /\ Finally(j, "Failed")
  /\ UNCHANGED << nextReq, kind, unlinkCalls, tResult, pushed >>

\* A pacing timer fires: processQueue() (line 68).
TimerFire ==
  /\ timers > 0
  /\ timers' = timers - 1
  /\ processQueue(requestQueue, isProcessing, pc, state)
  /\ UNCHANGED << nextReq, kind, resp, unlinkCalls, file, tResult, threw,
                  pushed, faults >>

Next ==
  \/ \E k \in Inputs : Arrive(k)
  \/ \E r \in Req : WriteDone(r)
  \/ \E r \in Req : WriteFail(r)
  \/ \E r \in Req : \E ok \in BOOLEAN : UploadCleanupDone(r, ok)
  \/ \E j \in Req : \E ok \in BOOLEAN : TransformReturn(j, ok)
  \/ \E j \in Req : \E ok \in BOOLEAN :
       \E snd \in SendOutcomes : SendSuccess(j, ok, snd)
  \/ \E j \in Req : \E ok \in BOOLEAN : \E thrown \in BOOLEAN : SendFailure(j, ok, thrown)
  \/ TimerFire

Spec == Init /\ [][Next]_vars

\* The same program serving LiveReq requests, every pending callback of the
\* event loop being run eventually: each write, transform and unlink settles
\* and each timer fires.
ArriveLive(k) == nextReq <= LiveReq /\ Arrive(k)

WriteSettles(r) == WriteDone(r) \/ WriteFail(r)
UploadCleanupSettles(r) == \E ok \in BOOLEAN : UploadCleanupDone(r, ok)
TransformSettles(j) == \E ok \in BOOLEAN : TransformReturn(j, ok)
SendSuccessRuns(j) == \E ok \in BOOLEAN : \E snd \in SendOutcomes : SendSuccess(j, ok, snd)
SendFailureRuns(j) == \E ok \in BOOLEAN : \E thrown \in BOOLEAN : SendFailure(j, ok, thrown)

NextLive ==
  \/ \E k \in Inputs : ArriveLive(k)
  \/ \E r \in Req : WriteDone(r)
  \/ \E r \in Req : WriteFail(r)
  \/ \E r \in Req : UploadCleanupSettles(r)
  \/ \E j \in Req : TransformSettles(j)
  \/ \E j \in Req : SendSuccessRuns(j)
  \/ \E j \in Req : SendFailureRuns(j)
  \/ TimerFire

\* A step of the event loop other than the arrival of a request.
Internal ==
  \/ TimerFire
  \/ \E r \in Req : \/ WriteSettles(r)
                     \/ UploadCleanupSettles(r)
                     \/ TransformSettles(r)
                     \/ SendSuccessRuns(r)
                     \/ SendFailureRuns(r)

\* While a callback is pending, the event loop runs one.
Fairness == WF_vars(Internal)

LiveSpec == Init /\ [][NextLive]_vars /\ Fairness

TypeOK ==
  /\ nextReq \in 1..(MaxReq + 1)
  /\ isProcessing \in BOOLEAN
  /\ timers \in 0..MaxReq
  /\ faults \in 0..MaxFaults

\* ------------------------------------------------------------- claims
Valid(r) == kind[r] \in ALLOWED_MIME_TYPES
Invalid(r) == kind[r] \in Inputs \ ALLOWED_MIME_TYPES
Terminal(r) == state[r] \in { "Completed", "Failed" }
Unfinished == { r \in Req : state[r] \in { "Queued", "Processing" } }
InQueue(r) == \E i \in 1..Len(requestQueue) : requestQueue[i] = r
Arriving(r) == pc[r] = "idle" /\ pc'[r] # "idle"

\* C1: requestQueue never holds more than maxQueueLength (3) jobs, under
\* every interleaving of handlers and executor steps.
C1_QueueNeverOverflows == Len(requestQueue) <= maxQueueLength

\* C2: at most maxConcurrency (1) job is in Processing at any instant.
C2_AtMostOneProcessing ==
  Cardinality({ r \in Req : state[r] = "Processing" }) <= maxConcurrency

\* A job is Processing while others wait in the queue and a stale pacing
\* timer is pending: a processQueue call is about to meet a busy executor.
C2_Witness ==
  /\ \E r \in Req : state[r] = "Processing"
  /\ Len(requestQueue) > 0
  /\ timers > 0

\* C3: a valid submission whose capacity check sees requestQueue.length >= 3
\* is answered 503 in that same step, which leaves requestQueue, isProcessing,
\* the job states and the artifacts unchanged; a request answered 503 never
\* has a job pushed, an artifact written or released, or a transform run.
C3_BusyStep ==
  \A r \in Req :
    (Arriving(r) /\ kind'[r] \in ALLOWED_MIME_TYPES
       /\ Len(requestQueue) >= maxQueueLength)
    => /\ resp'[r] = << 503 >>
       /\ pc'[r] = "done"
       /\ UNCHANGED << requestQueue, isProcessing, state, file, pushed,
                       unlinkCalls, transformCalls, timers >>

C3_BusyLeavesNothing ==
  \A r \in Req :
    (\E i \in 1..Len(resp[r]) : resp[r][i] = 503)
    => /\ resp[r] = << 503 >>
       /\ pc[r] = "done"
       /\ state[r] = "none"
       /\ file[r] = "none"
       /\ ~ InQueue(r)
       /\ \A i \in 1..Len(pushed) : pushed[i] # r
       /\ unlinkCalls[r] = 0
       /\ transformCalls[r] = 0

C3_BusyRejected == [][C3_BusyStep]_vars /\ [] C3_BusyLeavesNothing

C3_Witness == \E r \in Req : resp[r] = << 503 >> /\ Len(requestQueue) >= maxQueueLength

\* C4: when five valid jobs are submitted back-to-back while job 1 is still
\* Processing, jobs 2 to 4 are admitted and job 5 is answered 503; and never
\* more than maxQueueLength + maxConcurrency = 4 admitted jobs are unfinished.
C4_FifthStep ==
  (/\ Arriving(5) /\ kind'[5] \in ALLOWED_MIME_TYPES
   /\ state[1] = "Processing"
   /\ \A r \in 2..4 : Valid(r) /\ pc[r] \in { "writing", "queued" })
  => resp'[5] = << 503 >>

C4_FifthRejected ==
  /\ [][C4_FifthStep]_vars
  /\ [] (Cardinality(Unfinished) <= maxQueueLength + maxConcurrency)

\* C5: no job begins Processing while an admitted job whose submission
\* arrived earlier (requests are numbered in arrival order) is still Queued.
C5_StartStep ==
  \A b \in Req :
    (state[b] # "Processing" /\ state'[b] = "Processing")
    => ~ \E a \in Req : a < b /\ state[a] = "Queued"

C5_StartInArrivalOrder == [][C5_StartStep]_vars

\* C6: no job has its result delivered more than once: never a 200 and a
\* 500, nor two responses of one kind, also when sending the 200 throws.
C6_AtMostOneDelivery == \A r \in Req : Len(resp[r]) <= 1

\* res.end threw after res.writeHead had sent the 200 status line, and the
\* catch block has run to its end.
C6_Witness ==
  \E r \in Req : /\ "end" \in threw[r]
                 /\ pc[r] = "done"
                 /\ resp[r] = << 200 >>

\* C8: unlink is invoked exactly once for every temp artifact that was
\* written for a job: never twice, and once when the job has ended.
C8_ReleasedExactlyOnce ==
  \A r \in Req :
    /\ unlinkCalls[r] <= 1
    /\ Terminal(r) => unlinkCalls[r] = 1

WriteFailed(r) == pc[r] \in { "uploadCleanup", "done" } /\ file[r] # "none" /\ state[r] = "none"

\* C9: every answered request has the status of its outcome class: 200
\* exactly when the transform succeeded, 400 exactly when the input was
\* missing or invalid, 500 exactly when processing failed (the transform, or
\* the write of the temp file), and 503 exactly when the input was valid and
\* the queue was full.
C9_Arrival ==
  \A r \in Req :
    Arriving(r)
    => (resp'[r] = << 503 >>
          <=> (kind'[r] \in ALLOWED_MIME_TYPES
                 /\ Len(requestQueue) >= maxQueueLength))

C9_Answered ==
  \A r \in Req :
    pc[r] = "done"
    => /\ resp[r] = << 200 >> <=> tResult[r] = "ok"
       /\ resp[r] = << 400 >> <=> Invalid(r)
       /\ resp[r] = << 500 >> <=> (tResult[r] = "fail" \/ WriteFailed(r))

C9_StatusExactlyByOutcome == [][C9_Arrival]_vars /\ [] C9_Answered

\* C9 as amended: 400 exactly when the input was missing or invalid; 503
\* exactly when the input was valid and requestQueue.length >= 3 at the
\* check; 200 only when the transform succeeded, and always then unless
\* sending the response threw; 500 only when the transform failed, the write
\* of the temp file failed, or res.writeHead threw after a successful
\* transform, and always then unless res.status(500).json threw.
C9_AnsweredAmended ==
  \A r \in Req :
    pc[r] = "done"
    => /\ resp[r] \in { << >>, << 200 >>, << 400 >>, << 500 >>, << 503 >> }
       /\ resp[r] = << 400 >> <=> Invalid(r)
       /\ resp[r] = << 200 >>
            <=> (tResult[r] = "ok" /\ "writeHead" \notin threw[r])
       /\ resp[r] = << 500 >>
            <=> (/\ \/ tResult[r] = "fail"
                    \/ WriteFailed(r)
                    \/ tResult[r] = "ok" /\ "writeHead" \in threw[r]
                 /\ "json" \notin threw[r])
       /\ resp[r] = << >> <=> "json" \in threw[r]

C9_StatusByOutcome == [][C9_Arrival]_vars /\ [] C9_AnsweredAmended

\* A 200, a 400 and two 500 have been sent, one 500 for a failed transform
\* and one for a failed write of the temp file.
C9_Witness ==
  /\ \E r \in Req : resp[r] = << 200 >>
  /\ \E r \in Req : resp[r] = << 400 >>
  /\ \E r \in Req : resp[r] = << 500 >> /\ tResult[r] = "fail"
  /\ \E r \in Req : resp[r] = << 500 >> /\ WriteFailed(r)

\* C10: when the transform fails for a job, or an exception escapes
\* processBackgroundRemoval, the step that ends the job makes it Failed with
\* its artifact's release invoked, clears isProcessing and arms the timer;
\* isProcessing is never set with no job running; and a job that is queued
\* is still dispatched.
C10_FailStep ==
  \A j \in Req :
    (state[j] = "Processing" /\ state'[j] = "Failed")
    => /\ unlinkCalls'[j] >= 1
       /\ isProcessing' = FALSE
       /\ timers' = timers + 1

C10_NeverStuck ==
  isProcessing <=> \E j \in Req : state[j] = "Processing"

Pushing(r) == pc[r] = "writing" /\ pushed' = Append(pushed, r)

\* C11: a job pushed while requestQueue is empty and no job is Processing is
\* dequeued and put in Processing by the processQueue call of the same step
\* (line 161): after the step it is Processing, the queue is empty again,
\* isProcessing is set, the transform has been invoked, and no pacing timer
\* was armed or consumed.
C11_ColdStep ==
  \A r \in Req :
    (Pushing(r) /\ requestQueue = << >> /\ ~ isProcessing)
      => /\ state'[r] = "Processing"
         /\ pc'[r] = "transform"
         /\ isProcessing'
         /\ requestQueue' = << >>
         /\ started' = Append(started, r)
         /\ transformCalls'[r] = 1
         /\ timers' = timers

C11_ColdDispatchIsImmediate == [][C11_ColdStep]_vars

\* The first job is Processing and no pacing timer was ever armed.
C11_Witness ==
  \E r \in Req : /\ state[r] = "Processing"
                 /\ started = << r >>
                 /\ pushed = << r >>
                 /\ timers = 0
                 /\ \A x \in Req : ~ Terminal(x)

\* ---------------------------------------------------------------- C12
\* The step in which an awaited unlink of request j's artifact settles and
\* the code after its try/catch runs (lines 93-95, 108-110, 167-169).
ReleaseSettles(j) ==
  /\ pc[j] \in { "unlinkOk", "unlinkErr", "uploadCleanup" }
  /\ pc'[j] # pc[j]

\* The code after the try/catch around unlink runs whatever unlink did: the
\* 200 is attempted after line 93, the 500 after lines 108 and 167.
ReleaseNeverRaises(j) ==
  /\ pc[j] = "uploadCleanup" => resp'[j] = << 500 >>
  /\ pc[j] = "unlinkOk" => (resp'[j] = << 200 >> \/ "writeHead" \in threw'[j])
  /\ pc[j] = "unlinkErr" => (resp'[j] # << >> \/ "json" \in threw'[j])
  /\ pc[j] \in { "unlinkOk", "unlinkErr" } /\ pc'[j] = "done"
       => (Terminal(j))' /\ ~ isProcessing'

\* C12 as stated: no release raises to its caller, and a release that is not
\* the first for its artifact, or that finds no artifact, changes nothing.
C12_ReleaseStepStrict ==
  \A j \in Req :
    ReleaseSettles(j)
      => /\ ReleaseNeverRaises(j)
         /\ (unlinkCalls[j] >= 2 \/ file[j] \notin { "present", "partial" })
              => file' = file

C12_ReleaseIdempotent == [][C12_ReleaseStepStrict]_vars

\* ---------------------------------------------------------------- C13
\* The step in which the unlink of the success path (line 93) settles with a
\* failure: the artifact is still there afterwards.
CleanupFails(j) ==
  pc[j] = "unlinkOk" /\ pc'[j] # "unlinkOk" /\ file'[j] = "present"

\* C13: when deleting the artifact fails after a successful transform, the
\* 200 is sent in that same step as if the unlink had succeeded, the job is
\* Completed, the slot is freed and the pacing timer armed, and no second
\* release is tried; only a throw of the send itself leads to the catch
\* block.  A 500 for a job whose transform succeeded never comes from the
\* cleanup: it is sent only after res.writeHead threw.
C13_CleanupFailStep ==
  \A j \in Req :
    CleanupFails(j)
      => /\ tResult[j] = "ok"
         /\ threw'[j] = { }
              => /\ resp'[j] = << 200 >>
                 /\ state'[j] = "Completed"
                 /\ pc'[j] = "done"
                 /\ ~ isProcessing'
                 /\ timers' = timers + 1
                 /\ unlinkCalls'[j] = 1
         /\ threw'[j] # { } => pc'[j] = "unlinkErr"

C13_No500FromCleanup ==
  \A j \in Req :
    (tResult[j] = "ok" /\ 500 \in { resp[j][i] : i \in DOMAIN resp[j] })
      => "writeHead" \in threw[j]

C13_CleanupFailureNotSurfaced ==
  [][C13_CleanupFailStep]_vars /\ []C13_No500FromCleanup

\* A job was delivered 200 and freed the slot although its artifact could not
\* be deleted.
C13_Witness ==
  \E j \in Req : /\ state[j] = "Completed"
                 /\ resp[j] = << 200 >>
                 /\ file[j] = "present"
                 /\ unlinkCalls[j] = 1
                 /\ ~ isProcessing

\* ---------------------------------------------------------------- C14
\* The step in which request r arrives with no file or with a MIME type
\* outside the allowed list (lines 121, 136).
ArrivingInvalid(r) ==
  Arriving(r) /\ (kind'[r] = "nofile" \/ kind'[r] \notin ALLOWED_MIME_TYPES)

\* C14: an arrival with no file or a disallowed MIME type is answered 400 in
\* its own step whatever requestQueue and isProcessing are, and the step
\* changes neither of them, creates no job and writes no artifact.
C14_InvalidStep ==
  \A r \in Req :
    ArrivingInvalid(r)
      => /\ resp'[r] = << 400 >>
         /\ pc'[r] = "done"
         /\ UNCHANGED << requestQueue, isProcessing, timers, file, state,
                         pushed, started, transformCalls, unlinkCalls >>

\* Such a request never becomes a job later on either.
C14_InvalidLeavesNothing ==
  \A r \in Req :
    Invalid(r) => /\ resp[r] = << 400 >>
                  /\ state[r] = "none"
                  /\ file[r] = "none"
                  /\ ~ InQueue(r)
                  /\ transformCalls[r] = 0
                  /\ unlinkCalls[r] = 0

C14_InvalidAlways400 == [][C14_InvalidStep]_vars /\ []C14_InvalidLeavesNothing

\* The latest request was invalid and got 400 while the queue is full and a
\* job is running.
C14_Witness ==
  \E r \in Req : /\ Invalid(r)
                 /\ r = nextReq - 1
                 /\ resp[r] = << 400 >>
                 /\ Len(requestQueue) >= maxQueueLength
                 /\ isProcessing

\* ---------------------------------------------------------------- C15
\* The step in which job j begins Processing (lines 55-57).
Dispatched(j) == state[j] # "Processing" /\ state'[j] = "Processing"

\* requestQueue as the processQueue call of this step finds it: with the job
\* pushed in this step, when there is one, at its end.
QueueAtDispatch ==
  IF pushed' # pushed THEN Append(requestQueue, pushed'[Len(pushed')])
                      ELSE requestQueue

\* C15: a job begins Processing only as the head of requestQueue, and the
\* shift, the setting of isProcessing and the call of the transform happen in
\* that one step; requestQueue loses an element and isProcessing is set in no
\* other kind of step.
C15_DispatchStep ==
  /\ \A j \in Req :
       Dispatched(j)
         => /\ QueueAtDispatch # << >>
            /\ j = Head(QueueAtDispatch)
            /\ requestQueue' = Tail(QueueAtDispatch)
            /\ ~ isProcessing /\ isProcessing'
            /\ started' = Append(started, j)
  /\ (\A j \in Req : ~ Dispatched(j))
       => /\ requestQueue' = QueueAtDispatch
          /\ isProcessing' => isProcessing
          /\ started' = started

\* Jobs begin Processing in exactly the order of their pushes: the pushes so
\* far are the dispatches so far followed by what waits in requestQueue.
C15_PushOrder == pushed = started \o requestQueue

C15_DispatchInPushOrder == [][C15_DispatchStep]_vars /\ []C15_PushOrder

\* Two jobs have begun Processing and two more wait behind them.
C15_Witness ==
  /\ Len(started) >= 2
  /\ Len(requestQueue) >= 2
  /\ isProcessing

\* ---------------------------------------------------------------- C16
\* The step that clears isProcessing (line 62).
SlotFreed == isProcessing /\ ~ isProcessing'

\* C16: isProcessing is cleared only in a step in which the awaited release
\* of the running job's artifact has settled and in which that job becomes
\* Completed or Failed; the pacing timer is armed in the same step.
C16_FreeStep ==
  SlotFreed
    => \E j \in Req : /\ state[j] = "Processing"
                      /\ pc[j] \in { "unlinkOk", "unlinkErr" }
                      /\ unlinkCalls[j] >= 1
                      /\ ReleaseSettles(j)
                      /\ (Terminal(j))'
                      /\ pc'[j] = "done"
                      /\ timers' = timers + 1

\* No release of a finished job is outstanding: a Completed or Failed job
\* has had unlink called and settled, its artifact is gone unless an unlink
\* failed, and while the slot is free no job is anywhere between its dispatch
\* and the end of its release.
C16_NothingDeferred ==
  /\ \A j \in Req :
       Terminal(j) => /\ pc[j] = "done"
                      /\ unlinkCalls[j] >= 1
                      /\ (faults = 0 => file[j] = "gone")
  /\ ~ isProcessing
       => \A j \in Req : pc[j] \notin { "transform", "unlinkOk", "unlinkErr" }

C16_FreedAfterRelease == [][C16_FreeStep]_vars /\ []C16_NothingDeferred

\* The slot is free after one job Completed and one Failed, both artifacts
\* removed.
C16_Witness ==
  /\ ~ isProcessing
  /\ \E a, b \in Req : /\ state[a] = "Completed" /\ file[a] = "gone"
                       /\ state[b] = "Failed" /\ file[b] = "gone"

\* ---------------------------------------------------------------- C17
\* C17 as stated: while a pacing timer armed by a completion has not fired,
\* a job begins Processing only by the firing of a timer.
C17_PacedStep ==
  \A j \in Req : (Dispatched(j) /\ timers > 0) => timers' = timers - 1

C17_SlotWaitsForTimer == [][C17_PacedStep]_vars

\* ---------------------------------------------------------------- C18
\* The job states in the order of the lifecycle; "none" is a request that is
\* not (yet) a job.
Rank(s) ==
  CASE s = "none" -> 0
    [] s = "Queued" -> 1
    [] s = "Processing" -> 2
    [] s \in { "Completed", "Failed" } -> 3

\* C18: in every step a job's state either stays or moves one stage forward
\* along Queued -> Processing -> Completed | Failed; a request becomes a job
\* in the step that pushes it, where it passes through Queued into Processing
\* when the processQueue call of that step dispatches it.  So no job moves
\* backwards, none leaves Completed or Failed, none ends without having been
\* Processing.
C18_LifecycleStep ==
  \A r \in Req :
    state'[r] # state[r]
      => \/ state[r] = "none" /\ Pushing(r) /\ state'[r] \in { "Queued", "Processing" }
         \/ state[r] = "Queued" /\ state'[r] = "Processing"
         \/ state[r] = "Processing" /\ state'[r] \in { "Completed", "Failed" }

\* The states agree with the record of pushes and dispatches: a job is one
\* that was pushed, and it is at or past Processing exactly when it was
\* dispatched.
C18_StatesFollowHistory ==
  \A r \in Req :
    /\ Rank(state[r]) >= 1 <=> \E i \in DOMAIN pushed : pushed[i] = r
    /\ Rank(state[r]) >= 2 <=> \E i \in DOMAIN started : started[i] = r
    /\ state[r] = "Queued" <=> InQueue(r)

C18_StateMonotone == [][C18_LifecycleStep]_vars /\ []C18_StatesFollowHistory

\* Every stage is occupied at once: jobs Completed, Failed, Processing and
\* Queued.
C18_Witness ==
  \E a, b, c, d \in Req : /\ state[a] = "Completed"
                          /\ state[b] = "Failed"
                          /\ state[c] = "Processing"
                          /\ state[d] = "Queued"

\* ---------------------------------------------------------------- C19
\* Request r was turned away with 400 or 503 (lines 121-150).
Rejected(r) == resp[r] # << >> /\ resp[r][1] \in { 400, 503 }

\* C19: the transform is invoked on a job in the step that dispatches it and
\* in no other step, so a job at or past Processing has had exactly one call,
\* a job whose transform failed is not given a second one, and a request that
\* was rejected with 400 or 503, or whose write failed, has had none.
C19_TransformStep ==
  \A r \in Req :
    transformCalls'[r] # transformCalls[r]
      => Dispatched(r) /\ transformCalls[r] = 0 /\ transformCalls'[r] = 1

C19_TransformCount ==
  \A r \in Req :
    /\ transformCalls[r] <= 1
    /\ transformCalls[r] = 1 <=> Rank(state[r]) >= 2
    /\ tResult[r] # "none" => transformCalls[r] = 1
    /\ (Rejected(r) \/ WriteFailed(r)) => transformCalls[r] = 0

C19_TransformExactlyOnce == [][C19_TransformStep]_vars /\ []C19_TransformCount

\* A job failed in its transform and stays at one call while a later job is
\* run, beside a request rejected with 503.
C19_Witness ==
  \E a, b, c \in Req : /\ state[a] = "Failed" /\ tResult[a] = "fail"
                       /\ transformCalls[a] = 1
                       /\ a < b /\ Rank(state[b]) >= 2
                       /\ resp[c] = << 503 >>
                       /\ transformCalls[c] = 0

\* ---------------------------------------------------------------- C20
\* C20: while the transform runs on a job, and while a job waits in the
\* queue, its artifact is completely written and no release of it has been
\* called.
C20_ArtifactThere ==
  \A j \in Req :
    (pc[j] = "transform" \/ state[j] = "Queued")
      => /\ file[j] = "present"
         /\ unlinkCalls[j] = 0

\* A release is called, and a written artifact changes, only in steps of a
\* job whose transform has settled or of a request whose write failed.
C20_ReleaseStep ==
  \A j \in Req :
    /\ unlinkCalls'[j] # unlinkCalls[j]
         => /\ state[j] # "Queued"
            /\ pc[j] \in { "transform", "unlinkOk", "writing" }
            /\ pc'[j] \notin { "transform", "queued" }
    /\ (file[j] = "present" /\ file'[j] # "present")
         => pc[j] \in { "unlinkOk", "unlinkErr" }

C20_ArtifactLivesThroughTransform ==
  [][C20_ReleaseStep]_vars /\ []C20_ArtifactThere

\* The transform runs on one job while another waits and a third has finished
\* and lost its artifact.
C20_Witness ==
  \E j, q, d \in Req : /\ pc[j] = "transform" /\ file[j] = "present"
                       /\ state[q] = "Queued" /\ file[q] = "present"
                       /\ Terminal(d) /\ file[d] = "gone"

\* ---------------------------------------------------------------- C21
\* C21: whenever jobs wait in requestQueue and no job is Processing, a
\* pacing timer that will call processQueue is pending.
C21_NoLostWakeup ==
  (Len(requestQueue) > 0 /\ ~ isProcessing) => timers > 0

\* Jobs wait while the slot is free, and one timer is pending.
C21_Witness ==
  /\ Len(requestQueue) >= 2
  /\ ~ isProcessing
  /\ timers = 1

\* ---------------------------------------------------------------- C22
\* The step in which request r arrives with a file of an allowed MIME type
\* and reaches the capacity check (line 145).
ArrivingValid(r) == Arriving(r) /\ kind'[r] \in ALLOWED_MIME_TYPES

\* C22: a valid submission is answered 503 exactly when requestQueue holds
\* three or more jobs at its capacity check; with fewer, whether a job is
\* running or not, it goes on to write its artifact, and the write ends
\* either in the push of the job or in the failure path.
C22_AdmissionStep ==
  \A r \in Req :
    /\ ArrivingValid(r)
         => IF Len(requestQueue) >= maxQueueLength
              THEN resp'[r] = << 503 >> /\ pc'[r] = "done"
              ELSE resp'[r] = << >> /\ pc'[r] = "writing"
    /\ (pc[r] = "writing" /\ pc'[r] # "writing")
         => \/ /\ Pushing(r)
               /\ state'[r] \in { "Queued", "Processing" }
               /\ file'[r] = "present"
            \/ /\ pc'[r] = "uploadCleanup"
               /\ file'[r] = "partial"
               /\ pushed' = pushed
    /\ (resp'[r] # resp[r] /\ resp'[r] = << 503 >>) => ArrivingValid(r)

\* A valid request that passed the capacity check is never answered 503
\* later, and once its write has settled it was pushed unless the write
\* failed.
C22_AdmittedIsPushed ==
  \A r \in Req :
    (Valid(r) /\ resp[r] # << 503 >>)
      => /\ 503 \notin { resp[r][i] : i \in DOMAIN resp[r] }
         /\ pc[r] # "writing"
              => (WriteFailed(r) \/ \E i \in DOMAIN pushed : pushed[i] = r)

C22_Only503WhenFull == [][C22_AdmissionStep]_vars /\ []C22_AdmittedIsPushed

\* Four valid submissions were pushed with no rejection: one job runs, three
\* wait, the later ones having arrived at a busy executor.
C22_Witness ==
  /\ isProcessing
  /\ Len(requestQueue) = maxQueueLength
  /\ Len(pushed) = 4
  /\ \A r \in Req : resp[r] = << >>

\* ---------------------------------------------------------------- C23
\* The step in which writeFile rejects for request r and the catch block of
\* the handler starts (lines 154, 163-167).
WriteFailing(r) == pc[r] = "writing" /\ pc'[r] = "uploadCleanup"

\* The step in which the unlink of that catch block has settled and the
\* response is sent (lines 167-172).
UploadFailedSent(r) == pc[r] = "uploadCleanup" /\ pc'[r] = "done"

\* C23: when writing the artifact fails, the catch block calls unlink on the
\* partly written file and, once that has settled either way, answers 500;
\* neither step pushes a job or changes requestQueue, isProcessing, any job
\* state or the timers.
C23_WriteFailStep ==
  \A r \in Req :
    /\ WriteFailing(r)
         => /\ unlinkCalls'[r] = unlinkCalls[r] + 1
            /\ resp'[r] = << >>
            /\ UNCHANGED << requestQueue, isProcessing, timers, state,
                            pushed, started, transformCalls >>
    /\ UploadFailedSent(r)
         => /\ resp'[r] = << 500 >>
            /\ file'[r] \in { "partial", "gone" }
            /\ UNCHANGED << requestQueue, isProcessing, timers, state,
                            pushed, started, transformCalls, unlinkCalls >>

\* A request whose write failed never becomes a job: it has one release
\* call, no transform call, and once answered exactly the 500.
C23_WriteFailedLeavesNoJob ==
  \A r \in Req :
    WriteFailed(r)
      => /\ unlinkCalls[r] = 1
         /\ transformCalls[r] = 0
         /\ state[r] = "none"
         /\ ~ InQueue(r)
         /\ \A i \in DOMAIN pushed : pushed[i] # r
         /\ pc[r] = "done" => resp[r] = << 500 >>
         /\ pc[r] # "done" => resp[r] = << >>

NoOpCall == isProcessing \/ QueueAtDispatch = << >>

\* C24: a processQueue call made while a job is Processing or while the
\* queue is empty changes nothing.  Called by a pacing timer, the step only
\* uses up that timer; called by a submission, the step leaves the pushed job
\* Queued at the end of requestQueue and nothing else differs.  Neither arms
\* a timer, dispatches a job or touches isProcessing or another job's state.
C24_NoOpStep ==
  /\ (timers' = timers - 1 /\ NoOpCall)
       => UNCHANGED << requestQueue, isProcessing, state, pc, started,
                       transformCalls, pushed, resp, file, unlinkCalls >>
  /\ \A r \in Req :
       (Pushing(r) /\ NoOpCall)
         => /\ requestQueue' = Append(requestQueue, r)
            /\ state' = [state EXCEPT ![r] = "Queued"]
            /\ pc' = [pc EXCEPT ![r] = "queued"]
            /\ UNCHANGED << isProcessing, timers, started, transformCalls >>

C24_NoOpCallChangesNothing == [][C24_NoOpStep]_vars

\* The timer of the last completion has fired on an empty queue with a free
\* slot: every timer is used up, nothing runs, nothing waits.
C24_Witness ==
  /\ \E j \in Req : Terminal(j)
  /\ timers = 0
  /\ ~ isProcessing
  /\ requestQueue = << >>
  /\ \A r \in Req : pc[r] \in { "idle", "done" }

====
